---- MODULE Spec2Model ----
(***************************************************************************)
(* Model of scripts/post_to_wordpress.py: the linear pipeline              *)
(*   get_jwt_token -> fetch_terms("categories") -> fetch_terms("tags")     *)
(*   -> parse_markdown -> normalise / resolve / POST posts.                *)
(*                                                                         *)
(* Text is a sequence of atoms.  An atom is an indivisible piece of text   *)
(* ("#", " ", "\n", "Categories:", "Tags:", "Excerpt", ",", "&", "amp;",   *)
(* and a few words); every literal the code searches for ("# ",            *)
(* "Categories: ", "Tags: ", "## Excerpt", ",", "&", "\n") is a sequence   *)
(* of whole atoms and cannot straddle the other atoms, so the regular      *)
(* expressions and str methods of the code are computed atom by atom.      *)
(***************************************************************************)
EXTENDS Naturals, Sequences, FiniteSets

VARIABLES pc, error, requests, token, category_map, tag_map, file,
          title, categories, tags, excerpt, content_, content_html,
          modified_categories, modified_tags, data

vars == <<pc, error, requests, token, category_map, tag_map, file,
          title, categories, tags, excerpt, content_, content_html,
          modified_categories, modified_tags, data>>

----------------------------------------------------------------------------
(* Bounds of the model                                                     *)

\* longest document of the parser specification, in lines
MaxLines == 3
\* longest term listing a taxonomy request returns
MaxTerms == 2

----------------------------------------------------------------------------
(* Text primitives                                                         *)

NL == "\n"
SP == " "

Whitespace == {SP, NL}

Range(s) == {s[i] : i \in DOMAIN s}

\* pat occurs in s starting at index i
MatchAt(s, pat, i) ==
    /\ i >= 1
    /\ i + Len(pat) - 1 <= Len(s)
    /\ \A k \in 1..Len(pat) : s[i + k - 1] = pat[k]

\* str.startswith
StartsWith(s, pat) == MatchAt(s, pat, 1)

\* the `in` operator on str
Contains(s, pat) == \E i \in 1..(Len(s) + 1) : MatchAt(s, pat, i)

\* str.lower, on one atom
LowerAtom(a) ==
    CASE a = "A" -> "a"
      [] a = "B" -> "b"
      [] a = "Categories:" -> "categories:"
      [] a = "Tags:" -> "tags:"
      [] a = "Excerpt" -> "excerpt"
      [] OTHER -> a

\* str.lower
Lower(s) == [i \in 1..Len(s) |-> LowerAtom(s[i])]

RECURSIVE LStrip(_)
LStrip(s) == IF s # <<>> /\ Head(s) \in Whitespace THEN LStrip(Tail(s)) ELSE s

RECURSIVE RStrip(_)
RStrip(s) ==
    IF s # <<>> /\ s[Len(s)] \in Whitespace
    THEN RStrip(SubSeq(s, 1, Len(s) - 1))
    ELSE s

\* str.strip
Strip(s) == RStrip(LStrip(s))

\* index of the first sep at or after i, Len(s) + 1 when there is none
RECURSIVE Find(_, _, _)
Find(s, sep, i) ==
    IF i > Len(s) THEN Len(s) + 1
    ELSE IF s[i] = sep THEN i
    ELSE Find(s, sep, i + 1)

\* str.split(sep): always at least one segment
RECURSIVE Split(_, _)
Split(s, sep) ==
    LET j == Find(s, sep, 1)
    IN  IF j > Len(s) THEN <<s>>
        ELSE <<SubSeq(s, 1, j - 1)>> \o Split(SubSeq(s, j + 1, Len(s)), sep)

\* str.replace('&', '&amp;')
RECURSIVE EscapeAmp(_)
EscapeAmp(s) ==
    IF s = <<>> THEN <<>>
    ELSE IF Head(s) = "&" THEN <<"&", "amp;">> \o EscapeAmp(Tail(s))
    ELSE <<Head(s)>> \o EscapeAmp(Tail(s))

----------------------------------------------------------------------------
(* parse_markdown                                                          *)

TitlePat == <<"#", SP>>
CategoriesPat == <<"Categories:", SP>>
TagsPat == <<"Tags:", SP>>
ExcerptMarker == <<"#", "#", SP, "Excerpt">>
NoTitle == <<"No title">>

NoMatch == [matched |-> FALSE, group |-> <<>>]

\* `pat(.+)` matches at i: pat, then at least one atom that is not a newline
GroupAt(s, pat, i) ==
    /\ MatchAt(s, pat, i)
    /\ i + Len(pat) <= Len(s)
    /\ s[i + Len(pat)] # NL

\* re.search(pat + '(.+)', s): the leftmost match; `.+` runs to the end of the
\* line.  With anchored, the pattern starts with ^ under re.MULTILINE.
ReSearch(s, pat, anchored) ==
    LET ok(i) == /\ GroupAt(s, pat, i)
                 /\ (anchored => (i = 1 \/ s[i - 1] = NL))
        starts == {i \in 1..Len(s) : ok(i)}
    IN  IF starts = {} THEN NoMatch
        ELSE LET i == CHOOSE x \in starts : \A y \in starts : x <= y
                 b == i + Len(pat)
             IN  [matched |-> TRUE,
                  group |-> SubSeq(s, b, Find(s, NL, b) - 1)]

\* group(0) in place of group(1): the heading marker stays in the title
TitleMatchWholeLine(s) ==
    LET m == ReSearch(s, TitlePat, TRUE)
    IN  IF m.matched THEN [m EXCEPT !.group = TitlePat \o m.group] ELSE m

\* title_match = re.search(r'^# (.+)', text, re.MULTILINE)
TitleMatch(s) == ReSearch(s, TitlePat, TRUE)

\* categories_match / tags_match = re.search(r'<Key>: (.+)', text)
MetaMatch(s, pat) == ReSearch(s, pat, FALSE)

\* the names are not lowercased
NamesNoLower(m) ==
    IF m.matched
    THEN LET segs == Split(m.group, ",")
         IN  [i \in 1..Len(segs) |-> Strip(segs[i])]
    ELSE <<>>

\* [c.strip().lower() for c in m.group(1).split(",")] if m else []
Names(m) ==
    IF m.matched
    THEN LET segs == Split(m.group, ",")
         IN  [i \in 1..Len(segs) |-> Lower(Strip(segs[i]))]
    ELSE <<>>

\* re.sub(r'^# .+\n', '', text, count=1): no re.MULTILINE, so only a heading
\* at the very start of the text, and only when a newline ends it
RemoveTitle(s) ==
    IF GroupAt(s, TitlePat, 1) /\ Find(s, NL, 1) <= Len(s)
    THEN SubSeq(s, Find(s, NL, 1) + 1, Len(s))
    ELSE s

\* content_md = re.sub(...).strip()
ContentMd(s) == Strip(RemoveTitle(s))

\* the marker line is kept in the section it falls in
RECURSIVE ScanKeepMarker(_, _, _)
ScanKeepMarker(lines, acc, i) ==
    IF i > Len(lines) THEN acc
    ELSE LET line_ == lines[i]
         IN  IF StartsWith(line_, CategoriesPat) \/ StartsWith(line_, TagsPat)
             THEN ScanKeepMarker(lines, acc, i + 1)
             ELSE IF acc.excerpt_flag = 0 /\ ~Contains(line_, ExcerptMarker)
             THEN ScanKeepMarker(lines,
                    [acc EXCEPT !.content_ = @ \o line_ \o <<NL>>], i + 1)
             ELSE ScanKeepMarker(lines,
                    [acc EXCEPT !.excerpt_flag = 1,
                                !.excerpt = @ \o line_ \o <<NL>>], i + 1)

\* the for loop over lines, from line i on
RECURSIVE Scan(_, _, _)
Scan(lines, acc, i) ==
    IF i > Len(lines) THEN acc
    ELSE LET line_ == lines[i]
         IN  IF StartsWith(line_, CategoriesPat) THEN Scan(lines, acc, i + 1)
             ELSE IF StartsWith(line_, TagsPat) THEN Scan(lines, acc, i + 1)
             ELSE IF Contains(line_, ExcerptMarker)
             THEN Scan(lines, [acc EXCEPT !.excerpt_flag = 1], i + 1)
             ELSE IF acc.excerpt_flag = 0
             THEN Scan(lines, [acc EXCEPT !.content_ = @ \o line_ \o <<NL>>], i + 1)
             ELSE Scan(lines, [acc EXCEPT !.excerpt = @ \o line_ \o <<NL>>], i + 1)

\* markdown.markdown(content_, ...): the rendering of the external library,
\* kept as an application to its argument
Markdown(md) == [html_of |-> md]

\* parse_markdown on the text of a readable file
ParseMarkdown(text) ==
    LET title_match == TitleMatch(text)
        scan == Scan(Split(ContentMd(text), NL),
                     [content_ |-> <<>>, excerpt |-> <<>>, excerpt_flag |-> 0], 1)
    IN  [title |-> IF title_match.matched THEN title_match.group ELSE NoTitle,
         categories |-> Names(MetaMatch(text, CategoriesPat)),
         tags |-> Names(MetaMatch(text, TagsPat)),
         excerpt |-> scan.excerpt,
         content_ |-> scan.content_,
         content_html |-> Markdown(scan.content_)]

----------------------------------------------------------------------------
(* The remote system and the document files                                *)

Tokens == {"t1", "t2"}

\* responses of POST /wp-json/jwt-auth/v1/token
TokenResponses ==
    {[status |-> 200, has_token |-> TRUE, token |-> t] : t \in Tokens}
    \cup {[status |-> 200, has_token |-> FALSE, token |-> "none"],
          [status |-> 401, has_token |-> FALSE, token |-> "none"]}

\* terms of the remote system: {id, name}
Terms ==
    {[id |-> 1, name |-> <<"a">>],
     [id |-> 2, name |-> <<"A">>],
     [id |-> 3, name |-> <<"A", SP, "&", "amp;", SP, "b">>],
     [id |-> 4, name |-> <<"b">>]}

Listings == UNION {[1..k -> Terms] : k \in 0..MaxTerms}

\* responses of GET /wp-json/wp/v2/{categories,tags}?per_page=100
TermResponses ==
    {[status |-> 200, items |-> l] : l \in Listings}
    \cup {[status |-> 500, items |-> <<>>]}

\* responses of POST /wp-json/wp/v2/posts
PostResponses ==
    {[status |-> 201, has_link |-> TRUE],
     [status |-> 201, has_link |-> FALSE],
     [status |-> 403, has_link |-> FALSE]}

\* response.raise_for_status()
RaisesForStatus(resp) == resp.status >= 400

Readable(text) == [readable |-> TRUE, text |-> text]
Unreadable == [readable |-> FALSE, text |-> <<>>]

RECURSIVE Join(_)
Join(lines) ==
    IF lines = <<>> THEN <<>>
    ELSE IF Len(lines) = 1 THEN lines[1]
    ELSE lines[1] \o <<NL>> \o Join(Tail(lines))

\* values of the metadata lines of the documents that are published
MetaValues ==
    {<<"A", SP, "&", SP, "b", ",", SP, "c">>,
     <<"b", ",", "A">>}

PipelineFiles ==
    {Readable(Join(<<TitlePat \o <<"A">>, CategoriesPat \o cv, TagsPat \o tv,
                     <<"a">>, <<>>>>)) : cv \in MetaValues, tv \in MetaValues}
    \cup {Readable(<<"a", NL>>), Unreadable}

\* lines of the documents the parser is checked on
ParseLines ==
    {<<>>,
     <<"a">>,
     <<SP, "b">>,
     <<"#", SP, "A">>,
     <<"#", SP>>,
     <<"Categories:", SP, "A", ",", SP, "b", SP>>,
     <<"Categories:", SP>>,
     <<"a", SP, "Categories:", SP, "B", ",", ",", "a">>,
     <<"Categories:", SP, "a", SP, "Tags:", SP, "b">>,
     <<"Tags:", SP, "a", "&", "B">>,
     <<"#", "#", SP, "Excerpt">>,
     <<"a", "#", "#", SP, "Excerpt", "b">>}

LineSeqs == UNION {[1..k -> ParseLines] : k \in 0..MaxLines}

ParseFiles ==
    {Readable(Join(ls)) : ls \in LineSeqs}
    \cup {Readable(Join(ls) \o <<NL>>) : ls \in LineSeqs}
    \cup {Unreadable}

----------------------------------------------------------------------------
(* fetch_terms                                                             *)

EmptyMap == [n \in {} |-> 0]

Put(m, k, v) == [n \in DOMAIN m \cup {k} |-> IF n = k THEN v ELSE m[n]]

\* an earlier term is not overwritten by a later one of the same key
RECURSIVE TermMapFirstWins(_)
TermMapFirstWins(items) ==
    IF items = <<>> THEN EmptyMap
    ELSE LET m == TermMapFirstWins(Tail(items))
         IN  Put(m, Lower(Head(items).name), Head(items).id)

\* {item["name"].lower(): item["id"] for item in r.json()}: items are
\* inserted in order, a later one overwrites an earlier one of the same key
RECURSIVE TermMap(_)
TermMap(items) ==
    IF items = <<>> THEN EmptyMap
    ELSE LET n == Len(items)
         IN  Put(TermMap(SubSeq(items, 1, n - 1)),
                 Lower(items[n].name), items[n].id)

----------------------------------------------------------------------------
(* post_to_wordpress, step by step                                         *)

Init ==
    /\ pc = "token"
    /\ error = "none"
    /\ requests = <<>>
    /\ token = "none"
    /\ category_map = EmptyMap
    /\ tag_map = EmptyMap
    /\ file \in PipelineFiles
    /\ title = <<>>
    /\ categories = <<>>
    /\ tags = <<>>
    /\ excerpt = <<>>
    /\ content_ = <<>>
    /\ content_html = Markdown(<<>>)
    /\ modified_categories = <<>>
    /\ modified_tags = <<>>
    /\ data = [sent |-> FALSE]

parsed_vars == <<title, categories, tags, excerpt, content_, content_html>>
post_vars == <<modified_categories, modified_tags, data>>

Raise(step) == pc' = "failed" /\ error' = step

\* a 401 or a missing token field does not stop the run
GetJwtTokenNoRaise ==
    /\ pc = "token"
    /\ \E resp \in TokenResponses :
         /\ requests' = Append(requests, [kind |-> "token", resp |-> resp])
         /\ token' = resp.token
         /\ pc' = "categories"
         /\ error' = IF RaisesForStatus(resp) \/ ~resp.has_token
                     THEN "token" ELSE error
    /\ UNCHANGED <<category_map, tag_map, file, parsed_vars, post_vars>>

\* token = get_jwt_token()
GetJwtToken ==
    /\ pc = "token"
    /\ \E resp \in TokenResponses :
         /\ requests' = Append(requests, [kind |-> "token", resp |-> resp])
         /\ IF RaisesForStatus(resp) \/ ~resp.has_token
            THEN Raise("token") /\ UNCHANGED token
            ELSE token' = resp.token /\ pc' = "categories" /\ UNCHANGED error
    /\ UNCHANGED <<category_map, tag_map, file, parsed_vars, post_vars>>

\* category_map = fetch_terms("categories")
FetchCategories ==
    /\ pc = "categories"
    /\ \E resp \in TermResponses :
         /\ requests' = Append(requests, [kind |-> "categories", resp |-> resp])
         /\ IF RaisesForStatus(resp)
            THEN Raise("categories") /\ UNCHANGED category_map
            ELSE /\ category_map' = TermMap(resp.items)
                 /\ pc' = "tags"
                 /\ UNCHANGED error
    /\ UNCHANGED <<token, tag_map, file, parsed_vars, post_vars>>

\* tag_map = fetch_terms("tags")
FetchTags ==
    /\ pc = "tags"
    /\ \E resp \in TermResponses :
         /\ requests' = Append(requests, [kind |-> "tags", resp |-> resp])
         /\ IF RaisesForStatus(resp)
            THEN Raise("tags") /\ UNCHANGED tag_map
            ELSE /\ tag_map' = TermMap(resp.items)
                 /\ pc' = "parse"
                 /\ UNCHANGED error
    /\ UNCHANGED <<token, category_map, file, parsed_vars, post_vars>>

\* title, categories, tags, excerpt, content_html = parse_markdown(file_path)
ParseStep ==
    /\ pc = "parse"
    /\ IF ~file.readable
       THEN Raise("parse") /\ UNCHANGED parsed_vars
       ELSE LET r == ParseMarkdown(file.text)
            IN  /\ title' = r.title
                /\ categories' = r.categories
                /\ tags' = r.tags
                /\ excerpt' = r.excerpt
                /\ content_' = r.content_
                /\ content_html' = r.content_html
                /\ pc' = "post"
                /\ UNCHANGED error
    /\ UNCHANGED <<requests, token, category_map, tag_map, file, post_vars>>

\* the names are looked up as parsed
ModifiedAsParsed(names) == names

\* [item.replace('&', '&amp;') for item in names]
Modified(names) == [i \in 1..Len(names) |-> EscapeAmp(names[i])]

\* a name missing from the map yields an entry all the same
RECURSIVE ResolveDefaultId(_, _)
ResolveDefaultId(names, map) ==
    IF names = <<>> THEN <<>>
    ELSE (IF Head(names) \in DOMAIN map THEN <<map[Head(names)]>> ELSE <<0>>)
         \o ResolveDefaultId(Tail(names), map)

\* [map.get(c) for c in names if c in map]
RECURSIVE Resolve(_, _)
Resolve(names, map) ==
    IF names = <<>> THEN <<>>
    ELSE (IF Head(names) \in DOMAIN map THEN <<map[Head(names)]>> ELSE <<>>)
         \o Resolve(Tail(names), map)

\* the post is created as a draft
PayloadDraft(mc, mt) ==
    [sent |-> TRUE,
     title |-> title,
     status |-> "draft",
     content |-> content_html,
     categories |-> Resolve(mc, category_map),
     excerpt |-> excerpt,
     tags |-> Resolve(mt, tag_map)]

\* data = {...}
Payload(mc, mt) ==
    [sent |-> TRUE,
     title |-> title,
     status |-> "publish",
     content |-> content_html,
     categories |-> Resolve(mc, category_map),
     excerpt |-> excerpt,
     tags |-> Resolve(mt, tag_map)]

\* lines 89-113: normalise, resolve, build data, POST it, print the link
PostStep ==
    /\ pc = "post"
    /\ LET mc == Modified(categories)
           mt == Modified(tags)
           d == Payload(mc, mt)
       IN  /\ modified_categories' = mc
           /\ modified_tags' = mt
           /\ data' = d
           /\ \E resp \in PostResponses :
                /\ requests' = Append(requests,
                      [kind |-> "posts",
                       headers |-> [Authorization |-> <<"Bearer", token>>],
                       json |-> d,
                       resp |-> resp])
                /\ IF RaisesForStatus(resp) \/ ~resp.has_link
                   THEN Raise("posts")
                   ELSE pc' = "done" /\ UNCHANGED error
    /\ UNCHANGED <<token, category_map, tag_map, file, parsed_vars>>

Next == GetJwtToken \/ FetchCategories \/ FetchTags \/ ParseStep \/ PostStep

Spec == Init /\ [][Next]_vars

\* parse_markdown alone, at line 88 of a run whose three requests succeeded
InitParse ==
    /\ pc = "parse"
    /\ error = "none"
    /\ requests = <<[kind |-> "token",
                     resp |-> [status |-> 200, has_token |-> TRUE, token |-> "t1"]],
                    [kind |-> "categories", resp |-> [status |-> 200, items |-> <<>>]],
                    [kind |-> "tags", resp |-> [status |-> 200, items |-> <<>>]]>>
    /\ token = "t1"
    /\ category_map = EmptyMap
    /\ tag_map = EmptyMap
    /\ file \in ParseFiles
    /\ title = <<>>
    /\ categories = <<>>
    /\ tags = <<>>
    /\ excerpt = <<>>
    /\ content_ = <<>>
    /\ content_html = Markdown(<<>>)
    /\ modified_categories = <<>>
    /\ modified_tags = <<>>
    /\ data = [sent |-> FALSE]

NextParse == ParseStep

SpecParse == InitParse /\ [][NextParse]_vars

----------------------------------------------------------------------------
(* Vocabulary of the properties                                            *)

Kinds == [i \in 1..Len(requests) |-> requests[i].kind]

IsPrefix(s, t) == Len(s) <= Len(t) /\ \A i \in 1..Len(s) : s[i] = t[i]

\* parse_markdown has returned
Parsed == file.readable /\ (pc \in {"post", "done"} \/ error = "posts")

\* the post-creation request has been sent
Posted == Len(requests) = 4

TextLines(text) == Split(text, NL)

\* a heading line: `# ` followed by at least one character
IsTitleLine(l) == Len(l) > 2 /\ l[1] = "#" /\ l[2] = SP

\* each line followed by a newline, concatenated
RECURSIVE Flatten(_)
Flatten(ls) == IF ls = <<>> THEN <<>> ELSE Head(ls) \o <<NL>> \o Flatten(Tail(ls))

\* how many lines of s are equal to l
CountLine(s, l) ==
    Cardinality({i \in 1..Len(TextLines(s)) : TextLines(s)[i] = l})

----------------------------------------------------------------------------
(* C1: a failure of a step ends the run with no later request: after a     *)
(* failed token request (an error status or no token field) the token      *)
(* request is the only one ever sent; after a failed categories (tags)     *)
(* listing exactly two (three) requests were sent; with an unreadable file *)
(* no post-creation request is sent.                                       *)
C1_FailureStopsRequests ==
    /\ (Len(requests) >= 1 /\ (requests[1].resp.status >= 400
                               \/ ~requests[1].resp.has_token))
          => Len(requests) = 1
    /\ (Len(requests) >= 2 /\ requests[2].resp.status >= 400) => Len(requests) = 2
    /\ (Len(requests) >= 3 /\ requests[3].resp.status >= 400) => Len(requests) = 3
    /\ ~file.readable => \A i \in 1..Len(requests) : requests[i].kind # "posts"
    /\ error # "none" => pc = "failed"

C1_Witness ==
    /\ pc = "failed"
    /\ error = "token"
    /\ Len(requests) = 1
    /\ requests[1].resp.status = 401

----------------------------------------------------------------------------
(* C2: every identifier of the payload's categories (tags) list is the     *)
(* value the category (tag) map holds for a normalized name of the         *)
(* document; a name without an entry contributes no identifier, and the    *)
(* post-creation request is sent all the same.                             *)
IdsFromMap(ids, names, map) ==
    /\ \A k \in 1..Len(ids) :
          \E i \in 1..Len(names) :
             /\ EscapeAmp(names[i]) \in DOMAIN map
             /\ map[EscapeAmp(names[i])] = ids[k]
    /\ Len(ids) = Cardinality({i \in 1..Len(names) : EscapeAmp(names[i]) \in DOMAIN map})

\* C2: the payload identifiers are map values of normalized document names,
\* one per matched name, and the post-creation request follows every parse
C2_IdsOnlyFromMap ==
    /\ Posted =>
          /\ IdsFromMap(requests[4].json.categories, categories, category_map)
          /\ IdsFromMap(requests[4].json.tags, tags, tag_map)
    /\ (Parsed /\ pc \in {"done", "failed"}) => Posted

C2_Witness ==
    /\ Posted
    /\ \E i \in 1..Len(categories) : EscapeAmp(categories[i]) \notin DOMAIN category_map
    /\ \E i \in 1..Len(categories) : EscapeAmp(categories[i]) \in DOMAIN category_map
    /\ Len(requests[4].json.categories) = 1

----------------------------------------------------------------------------
(* C3: when a title was extracted from a heading line, that heading line   *)
(* is removed from the remaining text: it is in neither the body nor the   *)
(* excerpt, wherever it stands in the file.                                *)
C3_TitleLineRemoved ==
    (Parsed /\ \E i \in 1..Len(TextLines(file.text)) :
                  IsTitleLine(TextLines(file.text)[i]))
    => LET h == TitlePat \o title
       IN  CountLine(content_, h) + CountLine(excerpt, h) < CountLine(file.text, h)

----------------------------------------------------------------------------
(* C4: the lines that remain (the text after the removal of a leading      *)
(* title line and the strip, without the lines starting with               *)
(* `Categories: ` or `Tags: `) are split at the first line containing      *)
(* `## Excerpt`: the lines before it form the body, the lines after it     *)
(* form the excerpt, the marker line goes to neither; without a marker all *)
(* of them form the body and the excerpt is empty.                         *)
NotMeta(l) == ~StartsWith(l, CategoriesPat) /\ ~StartsWith(l, TagsPat)
NotMarker(l) == ~Contains(l, ExcerptMarker)

Remaining(text) == SelectSeq(TextLines(ContentMd(text)), NotMeta)

Markers(ls) == {i \in 1..Len(ls) : ~NotMarker(ls[i])}

FirstMarker(ls) == CHOOSE i \in Markers(ls) : \A j \in Markers(ls) : i <= j

\* C4 as stated: every line after the first marker line goes to the excerpt
C4_SplitAtMarker ==
    Parsed =>
       LET ls == Remaining(file.text)
       IN  IF Markers(ls) = {}
           THEN content_ = Flatten(ls) /\ excerpt = <<>>
           ELSE /\ content_ = Flatten(SubSeq(ls, 1, FirstMarker(ls) - 1))
                /\ excerpt = Flatten(SubSeq(ls, FirstMarker(ls) + 1, Len(ls)))

\* C4 amended: a later line containing the marker is dropped as well, the
\* other lines after the first marker line form the excerpt
C4_SplitAtMarkerAmended ==
    Parsed =>
       LET ls == Remaining(file.text)
       IN  IF Markers(ls) = {}
           THEN content_ = Flatten(ls) /\ excerpt = <<>>
           ELSE /\ content_ = Flatten(SubSeq(ls, 1, FirstMarker(ls) - 1))
                /\ excerpt = Flatten(SelectSeq(
                       SubSeq(ls, FirstMarker(ls) + 1, Len(ls)), NotMarker))

C4_Witness ==
    /\ Parsed
    /\ Cardinality(Markers(Remaining(file.text))) = 2
    /\ excerpt = <<"a", NL>>

----------------------------------------------------------------------------
(* C6: categoryNames (tagNames) is the sequence of the comma-separated     *)
(* segments of the value of the first `Categories: ...` (`Tags: ...`)      *)
(* line, each trimmed and lowercased, in order, one name per segment; the  *)
(* list is empty when no line has such a value.                            *)

\* the indices of line l at which a value (at least one character) follows pat
ValueStarts(l, pat) ==
    {i \in (Len(pat) + 1)..Len(l) : SubSeq(l, i - Len(pat), i - 1) = pat}

MetaLines(text, pat) ==
    {i \in 1..Len(TextLines(text)) : ValueStarts(TextLines(text)[i], pat) # {}}

FirstMetaLine(text, pat) ==
    LET S == MetaLines(text, pat)
    IN  TextLines(text)[CHOOSE i \in S : \A j \in S : i <= j]

MetaValue(text, pat) ==
    LET l == FirstMetaLine(text, pat)
        S == ValueStarts(l, pat)
    IN  SubSeq(l, CHOOSE i \in S : \A j \in S : i <= j, Len(l))

\* core is seg without its leading and trailing whitespace
Trimmed(seg, core) ==
    \E a \in 0..Len(seg) : \E b \in a..Len(seg) :
       /\ core = SubSeq(seg, a + 1, b)
       /\ \A i \in 1..a : seg[i] \in Whitespace
       /\ \A i \in (b + 1)..Len(seg) : seg[i] \in Whitespace
       /\ core # <<>> => (core[1] \notin Whitespace /\ core[Len(core)] \notin Whitespace)

SegmentsOf(v, names) ==
    LET commas == {i \in 1..Len(v) : v[i] = ","}
        marks == commas \cup {0, Len(v) + 1}
        Cut(k) == CHOOSE i \in marks : Cardinality({c \in marks : c < i}) = k
    IN  /\ Len(names) = Cardinality(commas) + 1
        /\ \A k \in 1..Len(names) :
              \E core \in {SubSeq(v, a, b) : a \in 1..(Len(v) + 1), b \in 0..Len(v)} :
                 /\ Trimmed(SubSeq(v, Cut(k - 1) + 1, Cut(k) - 1), core)
                 /\ names[k] = [j \in 1..Len(core) |-> LowerAtom(core[j])]

NamesOf(text, pat, names) ==
    IF MetaLines(text, pat) = {} THEN names = <<>>
    ELSE SegmentsOf(MetaValue(text, pat), names)

\* C6: categories and tags are the trimmed, lowercased comma-separated
\* segments of the first metadata value, or empty without one
C6_Names ==
    Parsed => /\ NamesOf(file.text, CategoriesPat, categories)
              /\ NamesOf(file.text, TagsPat, tags)

C6_Witness ==
    /\ Parsed
    /\ categories = <<<<"b">>, <<>>, <<"a">>>>
    /\ tags = <<>>

----------------------------------------------------------------------------
(* C5: the Categories (Tags) values come from the first matching line      *)
(* only, and the line they were extracted from is dropped: it is in        *)
(* neither the body nor the excerpt.                                       *)
MetaLineDropped(text, pat) ==
    MetaLines(text, pat) # {} =>
       LET l == FirstMetaLine(text, pat)
       IN  CountLine(content_, l) + CountLine(excerpt, l) < CountLine(text, l)

\* C5: names from the first matching line, and that line in neither the body
\* nor the excerpt
C5_MetaLineDropped ==
    Parsed => /\ NamesOf(file.text, CategoriesPat, categories)
              /\ NamesOf(file.text, TagsPat, tags)
              /\ MetaLineDropped(file.text, CategoriesPat)
              /\ MetaLineDropped(file.text, TagsPat)

----------------------------------------------------------------------------
(* C7: when the first line of the document is `# ` followed by text, the   *)
(* title is exactly the rest of that line; when no line of the document is *)
(* a title line, the title is "No title".                                  *)
C7_Title ==
    Parsed =>
       LET ls == TextLines(file.text)
       IN  /\ IsTitleLine(ls[1]) => title = SubSeq(ls[1], 3, Len(ls[1]))
           /\ (\A i \in 1..Len(ls) : ~IsTitleLine(ls[i])) => title = <<"No title">>

C7_Witness ==
    /\ Parsed
    /\ IsTitleLine(TextLines(file.text)[1])
    /\ Len(TextLines(file.text)) > 1
    /\ title = <<"A">>

----------------------------------------------------------------------------
(* C8: before the lookup every `&` of each parsed category and tag name is *)
(* replaced by `&amp;`, everything else and the order of the names kept,   *)
(* so that a name such as "a & b" resolves to the identifier of a remote   *)
(* term whose lowercased name is "a &amp; b".                              *)

\* m is n with "amp;" inserted after every "&"
Escaped(n, m) ==
    LET Pos(i) == i + Cardinality({j \in 1..(i - 1) : n[j] = "&"})
    IN  /\ Len(m) = Len(n) + Cardinality({j \in 1..Len(n) : n[j] = "&"})
        /\ \A i \in 1..Len(n) :
              /\ m[Pos(i)] = n[i]
              /\ n[i] = "&" => m[Pos(i) + 1] = "amp;"

EscapedAll(names, modified) ==
    /\ Len(modified) = Len(names)
    /\ \A i \in 1..Len(names) : Escaped(names[i], modified[i])

\* every name whose escaped form is the lowercased name of a listed term
\* contributes the identifier of a term of that lowercased name
ResolvesEscaped(names, items, ids) ==
    \A i \in 1..Len(names) :
       \A m \in {Lower(items[j].name) : j \in 1..Len(items)} :
          Escaped(names[i], m) =>
             \E k \in 1..Len(ids) : \E j \in 1..Len(items) :
                Lower(items[j].name) = m /\ items[j].id = ids[k]

\* C8: the looked-up names are the parsed names with every & escaped, and a
\* name whose escaped form is a listed term name contributes its identifier
C8_AmpersandEscaped ==
    Posted =>
       /\ EscapedAll(categories, modified_categories)
       /\ EscapedAll(tags, modified_tags)
       /\ ResolvesEscaped(categories, requests[2].resp.items,
                          requests[4].json.categories)
       /\ ResolvesEscaped(tags, requests[3].resp.items, requests[4].json.tags)

C8_Witness ==
    /\ Posted
    /\ Len(categories) = 2
    /\ categories[1] = <<"a", SP, "&", SP, "b">>
    /\ modified_categories[1] = <<"a", SP, "&", "amp;", SP, "b">>
    /\ requests[4].json.categories = <<3>>

----------------------------------------------------------------------------
(* C9: the requests are issued in the order token, categories, tags,       *)
(* posts, each at most once; the post-creation request is sent only after  *)
(* the token and both maps were obtained and the document was parsed, it   *)
(* carries the bearer token of this run and status "publish"; a successful *)
(* run sends exactly these four requests.                                  *)
C9_RequestOrder ==
    /\ IsPrefix(Kinds, <<"token", "categories", "tags", "posts">>)
    /\ Posted =>
          /\ requests[1].resp.status = 200 /\ requests[1].resp.has_token
          /\ requests[2].resp.status = 200 /\ requests[3].resp.status = 200
          /\ Parsed
          /\ requests[4].headers.Authorization = <<"Bearer", requests[1].resp.token>>
          /\ requests[4].json.status = "publish"
          /\ requests[4].json.title = title
          /\ requests[4].json.excerpt = excerpt
          /\ requests[4].json.content = content_html
    /\ pc = "done" => Posted

C9_Witness ==
    /\ pc = "done"
    /\ Kinds = <<"token", "categories", "tags", "posts">>
    /\ requests[4].headers.Authorization = <<"Bearer", "t2">>

----------------------------------------------------------------------------
(* C10: fetch_terms maps each returned term's lowercased display name to   *)
(* that term's own identifier, also when two returned terms have names     *)
(* that differ only in letter case.                                        *)
OwnIds(items, map) ==
    \A i \in 1..Len(items) :
       /\ Lower(items[i].name) \in DOMAIN map
       /\ map[Lower(items[i].name)] = items[i].id

\* C10 as stated: every returned term finds its own identifier under its
\* lowercased name
C10_OwnIdentifier ==
    /\ (Len(requests) >= 2 /\ requests[2].resp.status = 200)
          => OwnIds(requests[2].resp.items, category_map)
    /\ (Len(requests) >= 3 /\ requests[3].resp.status = 200)
          => OwnIds(requests[3].resp.items, tag_map)

\* the identifier is that of the last returned term of that lowercased name
LastIds(items, map) ==
    /\ DOMAIN map = {Lower(items[i].name) : i \in 1..Len(items)}
    /\ \A i \in 1..Len(items) :
          \E j \in i..Len(items) :
             /\ Lower(items[j].name) = Lower(items[i].name)
             /\ \A k \in (j + 1)..Len(items) :
                   Lower(items[k].name) # Lower(items[i].name)
             /\ map[Lower(items[i].name)] = items[j].id

\* C10 amended: the keys are the lowercased names, each mapped to the
\* identifier of the last returned term of that lowercased name
C10_LastIdentifier ==
    /\ (Len(requests) >= 2 /\ requests[2].resp.status = 200)
          => LastIds(requests[2].resp.items, category_map)
    /\ (Len(requests) >= 3 /\ requests[3].resp.status = 200)
          => LastIds(requests[3].resp.items, tag_map)

C10_Witness ==
    /\ pc = "tags"
    /\ requests[2].resp.items = <<[id |-> 1, name |-> <<"a">>],
                                  [id |-> 2, name |-> <<"A">>]>>
    /\ category_map[<<"a">>] = 2

====
